---- MODULE Spec2Model ----
(***************************************************************************)
(* The data-access layer of the fridge inventory backend: the product,     *)
(* product_type and product_location tables, the generic CRUD engine       *)
(* (CRUDBase), its product specialisation (CRUDProduct) and the inventory  *)
(* routes that call them.                                                  *)
(***************************************************************************)
EXTENDS Integers, Sequences, FiniteSets, TLC

\* ---------------------------------------------------------------- bounds

\* Quantities offered by callers range over 0..MaxQuantity (0 is out of range).
MaxQuantity == 2
\* Timestamps (server clock readings, expiry dates) range over 0..MaxTime.
MaxTime == 3

\* Page sizes asked for range over -1..MaxLimit.
MaxLimit == 3

Quantities == 0..MaxQuantity
Times == 0..MaxTime

\* Product names and descriptions offered by callers.
Names == {"Apples", "Bananas"}
Descriptions == {"d1", "d2"}

\* Row ids addressed by callers: two that Init may store and one never stored.
RowIds == {1, 2, 3}
\* Row ids that update calls address (row 2 is only read, removed or left alone).
UpdateIds == {1, 3}

\* Prefixes searched for have up to MaxPrefixLen characters; the tables searched
\* hold up to MaxNamesStored products.
MaxPrefixLen == 2
MaxNamesStored == 2

\* ------------------------------------------------------- enumerations

\* ProductTypeEnum and ProductLocationEnum, cut to two members each (the
\* values are written without the pictographs that follow them in the source).
ProductTypeEnum == {"fruit", "meat"}
ProductLocationEnum == {"refrigerator", "big freezer"}
\* ProductUnitEnum.
ProductUnitEnum == {"g", "boxes", "bottles"}
\* Units offered by callers ("kg" is outside the enumeration).
Units == {"g", "boxes"}

\* The keys of ProductBase, shared by ProductCreate and ProductUpdate.
ProductBaseFields ==
    {"product_name", "description", "quantity", "unit", "expiry_date",
     "product_location", "product_type"}

\* ------------------------------------------------------------- schema

\* A Product that also answers to the names the schemas use for its fields,
\* without a column behind them.
ProductAndSchemaAttrs ==
    {"id", "name", "description", "quantity", "unit", "added_date",
     "expiration_date", "product_type_id", "product_type", "product_location_id",
     "product_location", "creation_date", "expiry_date", "image_location"}

\* Mapped attributes of the Product class (columns and relationships): what
\* hasattr(db_obj, field) answers and what the constructor accepts as keywords.
ProductAttrs ==
    {"id", "name", "description", "quantity", "unit", "added_date",
     "expiration_date", "product_type_id", "product_type",
     "product_location_id", "product_location"}

\* Columns of the product table.
ProductColumns ==
    {"id", "name", "description", "quantity", "unit", "added_date",
     "expiration_date", "product_type_id", "product_location_id"}

\* SQL NULL for an integer or timestamp column, and for a string column.
NullInt == 0 - 1
NullStr == "NULL"

IntColumns ==
    {"id", "quantity", "added_date", "expiration_date", "product_type_id",
     "product_location_id"}

\* Columns declared (or inferred from Mapped[...]) NOT NULL.
NotNullColumns ==
    {"id", "name", "description", "quantity", "unit", "product_type_id",
     "product_location_id"}

\* The value a column takes on INSERT when the statement does not supply it.
ColumnDefault(c) ==
    IF c = "unit" THEN "g" ELSE IF c \in IntColumns THEN NullInt ELSE NullStr

IsNull(c, v) == IF c \in IntColumns THEN v = NullInt ELSE v = NullStr

\* A product table without CheckConstraint("quantity >= 1").
RowOKWithoutQuantityCheck(r) ==
    /\ \A c \in NotNullColumns : ~IsNull(c, r[c])
    /\ r.unit \in ProductUnitEnum
    /\ \/ r.expiration_date = NullInt
       \/ r.added_date = NullInt
       \/ r.expiration_date > r.added_date

\* The row-level constraints of the product table: NOT NULL, the quantity and
\* unit checks, and expiration_date_check (a CHECK passes on NULL operands).
RowOK(r) ==
    /\ \A c \in NotNullColumns : ~IsNull(c, r[c])
    /\ r.quantity >= 1
    /\ r.unit \in ProductUnitEnum
    /\ \/ r.expiration_date = NullInt
       \/ r.added_date = NullInt
       \/ r.expiration_date > r.added_date

\* A product table whose name column is not unique.
TableOKWithoutUniqueName(tbl) == \A i \in DOMAIN tbl : RowOK(tbl[i])

\* The table-level constraints: every row is valid and product.name is unique.
TableOK(tbl) ==
    /\ \A i \in DOMAIN tbl : RowOK(tbl[i])
    /\ \A i, j \in DOMAIN tbl : tbl[i].name = tbl[j].name => i = j

\* The rows init_product_type_table and init_product_location_table insert:
\* one per name of the seed list, the names being those of the enumerations.
SeedTypes == {[id |-> 1, name |-> "fruit"], [id |-> 2, name |-> "meat"]}
SeedLocations ==
    {[id |-> 1, name |-> "refrigerator"], [id |-> 2, name |-> "big freezer"]}

\* ---------------------------------------------------------------- state

VARIABLES
    product_type,      \* the product_type table: a set of [id, name] rows
    product_location,  \* the product_location table: a set of [id, name] rows
    product,           \* the product table: primary key -> row
    fk_enforced,       \* whether the engine enforces FOREIGN KEY constraints
    last,              \* the latest call: its arguments and its outcome
    removed            \* history: ids removed and not assigned again since

vars == <<product_type, product_location, product, fk_enforced, last, removed>>

NoInput == [k \in {} |-> 0]

Call(op, row_id, obj_in, now, exc, arg, ret, changed, status) ==
    [op |-> op, row_id |-> row_id, obj_in |-> obj_in, now |-> now, exc |-> exc,
     arg |-> arg, ret |-> ret, changed |-> changed, status |-> status]

\* No call is in progress: the caller has taken the previous outcome.
Idle == Call("idle", 0, NoInput, 0, "none", "", <<>>, FALSE, 0)

\* Product rows the table may hold: rows written by an earlier revision or by a
\* session outside CRUDProduct.create (initialise_db creates the tables that are
\* missing and keeps the rows of those that exist). They satisfy the
\* constraints of the product table.
RowA ==
    [id |-> 1, name |-> "Apples", description |-> "d1", quantity |-> 1,
     unit |-> "g", added_date |-> 1, expiration_date |-> 3,
     product_type_id |-> 1, product_location_id |-> 1]
RowB ==
    [id |-> 2, name |-> "Bananas", description |-> "d1", quantity |-> 1,
     unit |-> "g", added_date |-> 2, expiration_date |-> 3,
     product_type_id |-> 1, product_location_id |-> 1]

InitTables ==
    {[i \in {} |-> RowA], [i \in {1} |-> RowA],
     [i \in {1, 2} |-> IF i = 1 THEN RowA ELSE RowB]}

Init ==
    /\ product_type = SeedTypes
    /\ product_location = SeedLocations
    /\ product \in InitTables
    /\ fk_enforced \in BOOLEAN
    /\ last = Idle
    /\ removed = {}

\* ------------------------------------------------------ lookup resolver

\* A resolution against the names the tables were seeded with, whatever the
\* table holds now.
RowsNamedAtSeed(tbl, name) ==
    {r \in SeedTypes \cup SeedLocations : r.name = name}

\* session.scalar(select(Model).where(Model.name == name)): the rows found.
RowsNamed(tbl, name) == {r \in tbl : r.name = name}

Outcome(exc, arg, val) == [exc |-> exc, arg |-> arg, val |-> val]

\* A resolution that writes NULL for a name no row has.
ResolveProductTypeOrNull(name, types) ==
    LET found == {r \in types : r.name = name}
    IN  IF found = {}
        THEN Outcome("none", "", NullInt)
        ELSE Outcome("none", "", (CHOOSE r \in found : TRUE).id)

\* The product_type branch of _collect_scalar_values: the id of the row named,
\* or InvalidProductTypeError carrying the name.
ResolveProductType(name, types) ==
    LET found == RowsNamed(types, name)
    IN  IF found = {}
        THEN Outcome("InvalidProductTypeError", name, NullInt)
        ELSE Outcome("none", "", (CHOOSE r \in found : TRUE).id)

\* The product_location branch of _collect_scalar_values.
ResolveProductLocation(name, locations) ==
    LET found == RowsNamed(locations, name)
    IN  IF found = {}
        THEN Outcome("InvalidProductLocationError", name, NullInt)
        ELSE Outcome("none", "", (CHOOSE r \in found : TRUE).id)

\* CRUDProduct._collect_scalar_values: the column values of the keys present,
\* with product_type resolved before product_location.
CollectScalarValues(obj_dict, types, locations) ==
    LET keys == DOMAIN obj_dict
        t == IF "product_type" \in keys
             THEN ResolveProductType(obj_dict["product_type"], types)
             ELSE Outcome("none", "", NullInt)
        l == IF "product_location" \in keys
             THEN ResolveProductLocation(obj_dict["product_location"], locations)
             ELSE Outcome("none", "", NullInt)
        cols == (IF "product_name" \in keys THEN {"name"} ELSE {})
                \cup (keys \cap {"description", "quantity", "unit", "expiry_date"})
                \cup (IF "product_type" \in keys THEN {"product_type_id"} ELSE {})
                \cup (IF "product_location" \in keys
                      THEN {"product_location_id"} ELSE {})
        value(c) ==
            CASE c = "name" -> obj_dict["product_name"]
              [] c = "product_type_id" -> t.val
              [] c = "product_location_id" -> l.val
              [] OTHER -> obj_dict[c]
    IN  IF t.exc # "none" THEN Outcome(t.exc, t.arg, NoInput)
        ELSE IF l.exc # "none" THEN Outcome(l.exc, l.arg, NoInput)
        ELSE Outcome("none", "", [c \in cols |-> value(c)])

\* The declarative constructor Product(**kwargs): a keyword that is no mapped
\* attribute of the class is a TypeError.
ProductInit(kwargs) ==
    IF DOMAIN kwargs \subseteq ProductAttrs
    THEN Outcome("none", "", kwargs)
    ELSE Outcome("TypeError", "", NoInput)

\* The return statement of encode_model: Product(...) of the resolved scalar
\* values c, the server's time and the fixed image location.
BuildProduct(c, now) ==
    LET kwargs == [k \in {"creation_date", "image_location"} \cup DOMAIN c.val |->
                     IF k = "creation_date" THEN now
                     ELSE IF k = "image_location" THEN "file_path"
                     ELSE c.val[k]]
    IN  IF c.exc # "none" THEN c ELSE ProductInit(kwargs)

\* CRUDProduct.encode_model: resolve the names, then build the Product with the
\* server's time and the fixed image location.
EncodeModel(obj_in, now, types, locations) ==
    BuildProduct(CollectScalarValues(obj_in, types, locations), now)

\* CRUDProduct.encode_update_model: the scalar columns of the fields set.
EncodeUpdateModel(obj_in, types, locations) ==
    CollectScalarValues(obj_in, types, locations)

\* ------------------------------------------------------------ the store

Store(p, t, l) == [product |-> p, product_type |-> t, product_location |-> l]

Current == Store(product, product_type, product_location)

Result(exc, arg, ret, store) ==
    [exc |-> exc, arg |-> arg, ret |-> ret, store |-> store]

Ids(tbl) == {r.id : r \in tbl}

\* The FOREIGN KEY constraints of product, checked when the engine enforces them.
ForeignKeysOK(s) ==
    \A i \in DOMAIN s.product :
        /\ \/ s.product[i].product_type_id = NullInt
           \/ s.product[i].product_type_id \in Ids(s.product_type)
        /\ \/ s.product[i].product_location_id = NullInt
           \/ s.product[i].product_location_id \in Ids(s.product_location)

\* session.commit(): the flushed rows are kept when every constraint holds.
CommitOK(s, fk) == TableOK(s.product) /\ (fk => ForeignKeysOK(s))

Max(S) == CHOOSE x \in S : \A y \in S : y <= x

\* The primary key an INSERT assigns.
NextId(tbl) == IF DOMAIN tbl = {} THEN 1 ELSE Max(DOMAIN tbl) + 1

\* The row an INSERT of a Product writes: the columns set on the object, the
\* column default or NULL for the others.
NewRow(tbl, values) ==
    [c \in ProductColumns |->
        IF c = "id" THEN NextId(tbl)
        ELSE IF c \in DOMAIN values THEN values[c]
        ELSE ColumnDefault(c)]

AddRow(tbl, row) ==
    [i \in DOMAIN tbl \cup {row.id} |-> IF i = row.id THEN row ELSE tbl[i]]

\* An update or remove that returns None for a row_id session.get misses.
ReturnNone(s) == Result("none", "", <<>>, s)

\* `raise NoResultFound` of update and remove, for a row_id session.get misses.
RaiseNoResultFound(s) == Result("NoResultFound", "", <<>>, s)

\* CRUDBase.get
CrudGet(s, row_id) ==
    IF row_id \in DOMAIN s.product THEN <<s.product[row_id]>> ELSE <<>>

\* session.add, session.commit and session.refresh of CRUDBase.create, for the
\* outcome e of encode_model.
AddAndCommit(s, fk, e) ==
    LET row == NewRow(s.product, e.val)
        after == [s EXCEPT !.product = AddRow(s.product, row)]
    IN  IF e.exc # "none" THEN Result(e.exc, e.arg, <<>>, s)
        ELSE IF ~CommitOK(after, fk) THEN Result("IntegrityError", "", <<>>, s)
        ELSE Result("none", "", <<row>>, after)

\* CRUDBase.create: encode, add, commit, refresh.
CrudCreate(s, fk, obj_in, now) ==
    AddAndCommit(s, fk,
                 EncodeModel(obj_in, now, s.product_type, s.product_location))

RECURSIVE EncodeAllThatEncode(_, _, _, _)
\* A comprehension that leaves out the payloads encode_model fails on.
EncodeAllThatEncode(objs, now, types, locations) ==
    IF objs = <<>> THEN Outcome("none", "", <<>>)
    ELSE
    LET e == EncodeModel(Head(objs), now, types, locations)
        rest == EncodeAllThatEncode(Tail(objs), now, types, locations)
    IN  IF e.exc # "none" THEN rest
        ELSE Outcome("none", "", <<e.val>> \o rest.val)

RECURSIVE EncodeAll(_, _, _, _)
\* The comprehension of create_multi: encode_model of each payload in order; the
\* first failure ends it.
EncodeAll(objs, now, types, locations) ==
    IF objs = <<>> THEN Outcome("none", "", <<>>)
    ELSE
    LET e == EncodeModel(Head(objs), now, types, locations)
        rest == EncodeAll(Tail(objs), now, types, locations)
    IN  IF e.exc # "none" THEN e
        ELSE IF rest.exc # "none" THEN rest
        ELSE Outcome("none", "", <<e.val>> \o rest.val)

RECURSIVE NewRows(_, _)
\* The rows the INSERTs of one flush write, in the order the objects were added.
NewRows(tbl, values) ==
    IF values = <<>> THEN <<>>
    ELSE LET row == NewRow(tbl, Head(values))
         IN  <<row>> \o NewRows(AddRow(tbl, row), Tail(values))

RECURSIVE AddRows(_, _)
AddRows(tbl, rows) ==
    IF rows = <<>> THEN tbl ELSE AddRows(AddRow(tbl, Head(rows)), Tail(rows))

\* CRUDBase.create_multi: encode all, add_all, one commit, refresh each.
CrudCreateMulti(s, fk, objs, now) ==
    LET e == EncodeAll(objs, now, s.product_type, s.product_location)
        rows == NewRows(s.product, e.val)
        after == [s EXCEPT !.product = AddRows(s.product, rows)]
    IN  IF e.exc # "none" THEN Result(e.exc, e.arg, <<>>, s)
        ELSE IF ~CommitOK(after, fk) THEN Result("IntegrityError", "", <<>>, s)
        ELSE Result("none", "", rows, after)

\* An update loop that rebuilds the row from the column defaults: a column that
\* has a default and is not in the payload is reset to it.
ApplyUpdateFromDefaults(db_obj, update_data) ==
    [c \in DOMAIN db_obj |->
        IF c \in DOMAIN update_data /\ c \in ProductAttrs THEN update_data[c]
        ELSE IF c = "unit" THEN ColumnDefault(c)
        ELSE db_obj[c]]

\* An update loop without the hasattr test: every encoded field is written to
\* the row, a field the table has no column for included.
ApplyUpdateOfEveryKey(db_obj, update_data) ==
    [c \in DOMAIN db_obj \cup DOMAIN update_data |->
        IF c \in DOMAIN update_data THEN update_data[c] ELSE db_obj[c]]

\* An update that replaces the row: the columns the encoded fields do not name,
\* the id apart, take the value an INSERT without them gives.
ApplyUpdateReplacingRow(db_obj, update_data) ==
    [c \in DOMAIN db_obj |->
        IF c \in DOMAIN update_data /\ c \in ProductAttrs THEN update_data[c]
        ELSE IF c = "id" THEN db_obj[c]
        ELSE ColumnDefault(c)]

\* The loop of CRUDBase.update: setattr for each encoded field the object has.
ApplyUpdate(db_obj, update_data) ==
    [c \in DOMAIN db_obj |->
        IF c \in DOMAIN update_data /\ c \in ProductAttrs
        THEN update_data[c] ELSE db_obj[c]]

\* CRUDBase.update
CrudUpdate(s, fk, row_id, obj_in) ==
    IF row_id \notin DOMAIN s.product
    THEN RaiseNoResultFound(s)
    ELSE
    LET e == EncodeUpdateModel(obj_in, s.product_type, s.product_location)
        row == ApplyUpdate(s.product[row_id], e.val)
        after == [s EXCEPT !.product[row_id] = row]
    IN  IF e.exc # "none" THEN Result(e.exc, e.arg, <<>>, s)
        ELSE IF ~CommitOK(after, fk) THEN Result("IntegrityError", "", <<>>, s)
        ELSE Result("none", "", <<row>>, after)

\* The lookup rows that session.delete(product) reaches through
\* Product.product_type and Product.product_location (cascade="all, delete-orphan").
CascadedTypes(s, row) == {t \in s.product_type : t.id = row.product_type_id}
CascadedLocations(s, row) ==
    {l \in s.product_location : l.id = row.product_location_id}

\* A remove that commits without session.delete: nothing is flushed.
FlushNothing(s, row_id) == s

\* The flush of a delete: the product row and the lookup rows the delete
\* cascades to are deleted, and the other products of a deleted lookup row get
\* their foreign key set to NULL (ProductType.products, ProductLocation.products).
FlushDelete(s, row_id) ==
    LET row == s.product[row_id]
        types == CascadedTypes(s, row)
        locations == CascadedLocations(s, row)
        detach(r) ==
            [r EXCEPT
                !.product_type_id =
                    IF r.product_type_id \in Ids(types) THEN NullInt ELSE @,
                !.product_location_id =
                    IF r.product_location_id \in Ids(locations) THEN NullInt ELSE @]
    IN  Store([i \in DOMAIN s.product \ {row_id} |-> detach(s.product[i])],
              s.product_type \ types, s.product_location \ locations)

\* CRUDBase.remove
CrudRemove(s, fk, row_id) ==
    IF row_id \notin DOMAIN s.product
    THEN RaiseNoResultFound(s)
    ELSE
    LET after == FlushDelete(s, row_id)
    IN  IF ~CommitOK(after, fk) THEN Result("IntegrityError", "", <<>>, s)
        ELSE Result("none", "", <<s.product[row_id]>>, after)

\* session.execute(delete(Model).where(Model.name == name)); session.commit():
\* a lookup row deleted by statement, outside the CRUD classes.
DeleteLookupRow(s, fk, kind, name) ==
    LET after == IF kind = "product_type"
                 THEN [s EXCEPT !.product_type = @ \ RowsNamed(@, name)]
                 ELSE [s EXCEPT !.product_location = @ \ RowsNamed(@, name)]
    IN  IF fk /\ ~ForeignKeysOK(after) THEN Result("IntegrityError", name, <<>>, s)
        ELSE Result("none", name, <<>>, after)

\* ---------------------------------------------------------------- paging

\* OrderByEnum.
OrderByEnum == {"id", "name", "creation_date", "expiry_date"}

\* The defaults of the parameters of get_multi_paginated.
DefaultOffset == 0
DefaultLimit == 100
DefaultAscending == FALSE
DefaultOrderBy == "id"

\* The product names of the paged tables, in the order the engine collates them.
SortedNames == <<"Apples", "Bananas", "Carrots", "Dates", "Eggs">>

NameRank(n) == CHOOSE k \in DOMAIN SortedNames : SortedNames[k] = n

\* An ordering that sorts by the primary key whatever column is asked for.
OrderKeyById(row, field) == row.id

\* The value ORDER BY compares: getattr(self.model, order_by.value).
OrderKey(row, field) == IF field = "name" THEN NameRank(row.name) ELSE row[field]

RECURSIVE OrderBy(_, _, _, _)
\* select(self.model).order_by(expression): the rows whose keys are `ids`,
\* ascending or descending by the column (id and name are unique: no ties).
OrderBy(tbl, ids, field, ascending) ==
    IF ids = {} THEN <<>>
    ELSE
    LET first ==
            CHOOSE i \in ids : \A j \in ids :
                IF ascending
                THEN OrderKey(tbl[i], field) <= OrderKey(tbl[j], field)
                ELSE OrderKey(tbl[i], field) >= OrderKey(tbl[j], field)
    IN  <<tbl[first]>> \o OrderBy(tbl, ids \ {first}, field, ascending)

Min(a, b) == IF a <= b THEN a ELSE b

\* The engines the configuration offers: SQLite, which as configured enforces
\* no foreign key, and PostgreSQL, which does.
Sqlite(fk) == ~fk

\* OFFSET and LIMIT as SQLite applies them: a negative OFFSET is 0, a negative
\* LIMIT is no limit.
SqlSlice(rows, offset, limit) ==
    LET off == IF offset < 0 THEN 0 ELSE offset
        lim == IF limit < 0 THEN Len(rows) ELSE limit
    IN  SubSeq(rows, off + 1, Min(off + lim, Len(rows)))

PaginatedResponse(data, total, offset, limit) ==
    [data |-> data, total |-> total, offset |-> offset, limit |-> limit]

\* A response whose total counts the rows of the page.
PageResultCountingPage(rows, tbl, offset, limit) ==
    PaginatedResponse(SqlSlice(rows, offset, limit),
                      Len(SqlSlice(rows, offset, limit)), offset, limit)

\* The PaginatedResponse get_multi_paginated builds: the data statement's rows
\* and the count statement's total.
PageResult(rows, tbl, offset, limit) ==
    PaginatedResponse(SqlSlice(rows, offset, limit), Cardinality(DOMAIN tbl),
                      offset, limit)

\* str(ModelNotHavingAttributeError(model_name="Product", attribute=attribute))
NotHavingAttributeMessage(attribute) ==
    CASE attribute = "creation_date" ->
            "Model Product does not have attribute creation_date."
      [] attribute = "expiry_date" ->
            "Model Product does not have attribute expiry_date."
      [] OTHER -> "Model Product does not have attribute."

\* An ordering check that answers an empty page for a column the model lacks.
ReturnEmptyPage(s, attribute) ==
    Result("none", "", <<PaginatedResponse(<<>>, 0, 0, 0)>>, s)

\* `raise ModelNotHavingAttributeError` of _get_order_by_expression.
RaiseModelNotHavingAttribute(s, attribute) ==
    Result("ModelNotHavingAttributeError", NotHavingAttributeMessage(attribute),
           <<>>, s)

\* CRUDBase.get_multi_paginated. PostgreSQL rejects a negative OFFSET or LIMIT.
CrudGetMultiPaginated(s, fk, offset, limit, ascending, order_by) ==
    IF order_by \notin ProductAttrs THEN RaiseModelNotHavingAttribute(s, order_by)
    ELSE IF ~Sqlite(fk) /\ (offset < 0 \/ limit < 0)
    THEN Result("DataError", "", <<>>, s)
    ELSE Result("none", "",
                <<PageResult(OrderBy(s.product, DOMAIN s.product, order_by,
                                     ascending),
                             s.product, offset, limit)>>, s)

\* next_offset as the database index of the last product of the page.
NextOffsetLastIndex(p) == p.offset + Min(p.limit, Len(p.data)) - 1

\* next_offset of ProductReadList.from_paginated_response.
NextOffset(p) == p.offset + Min(p.limit, Len(p.data))

\* ---------------------------------------------------------- name search

\* Characters of product names; a name is a sequence of them. Two ASCII letters
\* and one letter outside ASCII (e with acute accent), each in both cases.
AsciiLower == {"s", "t"}
AsciiUpper == {"S", "T"}
Letters == AsciiLower \cup AsciiUpper \cup {"eacute", "Eacute"}

\* str.lower() and str.upper() of one character.
CharLower(c) ==
    CASE c = "S" -> "s" [] c = "T" -> "t" [] c = "Eacute" -> "eacute"
      [] OTHER -> c

CharUpper(c) ==
    CASE c = "s" -> "S" [] c = "t" -> "T" [] c = "eacute" -> "Eacute"
      [] OTHER -> c

StrLower(str) == [k \in DOMAIN str |-> CharLower(str[k])]
StrUpper(str) == [k \in DOMAIN str |-> CharUpper(str[k])]

\* The case folding of the comparison ILIKE compiles to: on SQLite
\* lower(x) LIKE lower(y), and SQLite folds the ASCII letters only; on
\* PostgreSQL x ILIKE y, which folds every letter.
SqlLower(c, fk) ==
    IF Sqlite(fk) /\ c \notin AsciiUpper THEN c ELSE CharLower(c)

RECURSIVE Like(_, _, _)
\* x LIKE pattern after folding: % matches any run of characters, _ any one
\* character, every other character itself.
Like(pattern, str, fk) ==
    IF pattern = <<>> THEN str = <<>>
    ELSE IF Head(pattern) = "%"
    THEN \/ Like(Tail(pattern), str, fk)
         \/ str # <<>> /\ Like(pattern, Tail(str), fk)
    ELSE /\ str # <<>>
         /\ \/ Head(pattern) = "_"
            \/ SqlLower(Head(pattern), fk) = SqlLower(Head(str), fk)
         /\ Like(Tail(pattern), Tail(str), fk)

RECURSIVE NamesLike(_, _, _, _)
\* The names of the rows `ids` that match, in the order of storage.
NamesLike(tbl, ids, pattern, fk) ==
    IF ids = {} THEN <<>>
    ELSE LET i == CHOOSE x \in ids : \A y \in ids : x <= y
         IN  (IF Like(pattern, tbl[i].name, fk) THEN <<tbl[i].name>> ELSE <<>>)
             \o NamesLike(tbl, ids \ {i}, pattern, fk)

\* CRUDProduct.get_names_starting_with
GetNamesStartingWith(s, fk, product_name) ==
    NamesLike(s.product, DOMAIN s.product, product_name \o <<"%">>, fk)

\* ------------------------------------------------------------ API layer

\* Validation of a request body as ProductUpdate: every field of ProductBase is
\* required, quantity >= 1, unit, location and type are members of their enums.
BodyValid(body) ==
    /\ ProductBaseFields \subseteq DOMAIN body
    /\ body.quantity >= 1
    /\ body.unit \in ProductUnitEnum
    /\ body.product_location \in ProductLocationEnum
    /\ body.product_type \in ProductTypeEnum

\* The attributes ProductRead.from_model reads from the Product it is given.
FromModelReads ==
    {"id", "name", "description", "quantity", "unit", "creation_date",
     "expiry_date", "product_location", "product_type", "image_location"}

Reply(status, detail, store) ==
    [status |-> status, detail |-> detail, store |-> store]

\* A handler that validates the body before it looks the product up.
UpdateProductBodyFirst(s, fk, product_id, body) ==
    IF ~BodyValid(body) THEN Reply(422, "RequestValidationError", s)
    ELSE IF CrudGet(s, product_id) = <<>>
    THEN Reply(404, "Product not found in the database.", s)
    ELSE
    LET r == CrudUpdate(s, fk, product_id, body)
    IN  IF r.exc # "none" THEN Reply(500, r.exc, s)
        ELSE IF ~(FromModelReads \subseteq ProductAttrs)
        THEN Reply(500, "AttributeError", r.store)
        ELSE Reply(200, "", r.store)

\* PATCH /inventory/update: get_db_product answers 404 for an id that is not
\* stored; the body is validated (422); product_crud.update runs; its row is
\* read by ProductRead.from_model; an exception nobody handles is a 500.
UpdateProduct(s, fk, product_id, body) ==
    IF CrudGet(s, product_id) = <<>>
    THEN Reply(404, "Product not found in the database.", s)
    ELSE IF ~BodyValid(body) THEN Reply(422, "RequestValidationError", s)
    ELSE
    LET r == CrudUpdate(s, fk, product_id, body)
    IN  IF r.exc # "none" THEN Reply(500, r.exc, s)
        ELSE IF ~(FromModelReads \subseteq ProductAttrs)
        THEN Reply(500, "AttributeError", r.store)
        ELSE Reply(200, "", r.store)

\* DELETE /inventory/delete: the handler takes no parameter, touches no row
\* and answers 204.
DeleteProduct(s, product_id) == Reply(204, "", s)

\* The default of the limit parameter of GET /inventory/list.
DefaultListLimit == 10

\* ProductReadList.
ProductReadList(products, next_offset, total) ==
    [products |-> products, next_offset |-> next_offset, total |-> total]

ListReply(status, detail, body) ==
    [status |-> status, detail |-> detail, body |-> body]

\* GET /inventory/list: offset and limit are any integers; the page of
\* product_crud.get_multi_paginated is turned into a ProductReadList, each row
\* read by ProductRead.from_model and next_offset and total required to be
\* >= 0. An exception nobody handles is a 500.
GetProductList(s, fk, offset, limit, ascending, order_by) ==
    LET r == CrudGetMultiPaginated(s, fk, offset, limit, ascending, order_by)
    IN  IF r.exc # "none" THEN ListReply(500, r.exc, <<>>)
        ELSE IF r.ret[1].data # <<>> /\ ~(FromModelReads \subseteq ProductAttrs)
        THEN ListReply(500, "AttributeError", <<>>)
        ELSE IF NextOffset(r.ret[1]) < 0 \/ r.ret[1].total < 0
        THEN ListReply(500, "ValidationError", <<>>)
        ELSE ListReply(200, "",
                       <<ProductReadList(r.ret[1].data, NextOffset(r.ret[1]),
                                         r.ret[1].total)>>)

\* --------------------------------------------------------------- inputs

\* The values a caller offers for a field.
FieldValues(k) ==
    CASE k = "product_name" -> Names
      [] k = "description" -> Descriptions
      [] k = "quantity" -> Quantities
      [] k = "unit" -> Units
      [] k = "expiry_date" -> Times
      [] k = "product_location" -> ProductLocationEnum
      [] k = "product_type" -> ProductTypeEnum

\* Complete payloads: every field of ProductBase set.
Drafts ==
    [product_name : Names, description : {"d2"}, quantity : {1}, unit : {"boxes"},
     expiry_date : {0, MaxTime}, product_location : ProductLocationEnum,
     product_type : ProductTypeEnum]

\* The fields set in the payload `full`, cut to the keys `ks`.
Partial(ks, full) == [k \in ks |-> full[k]]

\* Payloads offered in batches.
BatchDrafts ==
    {d \in Drafts : d.product_type = "fruit" /\ d.product_location = "refrigerator"}

\* A payload of the other product type, offered first in a batch of two.
MeatDrafts ==
    {d \in Drafts : /\ d.product_type = "meat"
                    /\ d.product_location = "refrigerator"
                    /\ d.product_name = "Apples"
                    /\ d.expiry_date = MaxTime}

\* A payload whose quantity is below 1.
DraftsBelowQuantity ==
    [product_name : {"Bananas"}, description : {"d2"}, quantity : {0},
     unit : {"boxes"}, expiry_date : {MaxTime},
     product_location : {"refrigerator"}, product_type : {"fruit"}]

\* Payloads that carry a creation_date of the client's next to the fields of
\* ProductCreate.
DraftsWithCreationDate ==
    [product_name : {"Bananas"}, description : {"d2"}, quantity : {1},
     unit : {"boxes"}, expiry_date : {MaxTime},
     product_location : {"refrigerator"}, product_type : ProductTypeEnum,
     creation_date : {0}]

\* Readings of the server clock.
ClockReadings == 1..(MaxTime - 1)

\* The product names of the paged tables, in the order of their ids.
PageNames == <<"Carrots", "Apples", "Bananas", "Eggs", "Dates">>

\* The rows of the paged tables: row 2 alone has the second type and location.
PageRow(i) ==
    [id |-> i, name |-> PageNames[i], description |-> "d1", quantity |-> 1,
     unit |-> "g", added_date |-> 1, expiration_date |-> MaxTime,
     product_type_id |-> IF i = 2 THEN 2 ELSE 1,
     product_location_id |-> IF i = 2 THEN 2 ELSE 1]

PageTables == {[i \in 1..n |-> PageRow(i)] : n \in 0..Len(PageNames)}

\* The offsets and limits callers ask for.
Offsets == (0 - 1)..(Len(PageNames) + 1)
Limits == (0 - 1)..MaxLimit

PageArgs(offset, limit, ascending, order_by) ==
    [offset |-> offset, limit |-> limit, ascending |-> ascending,
     order_by |-> order_by]

\* The arguments get_multi_paginated takes when the caller gives none.
DefaultPageArgs ==
    PageArgs(DefaultOffset, DefaultLimit, DefaultAscending, DefaultOrderBy)

\* The query of GET /inventory/list when the client gives no parameter.
DefaultListArgs ==
    PageArgs(DefaultOffset, DefaultListLimit, DefaultAscending, DefaultOrderBy)

\* The arguments callers give.
PageArgsGiven ==
    {PageArgs(o, l, asc, f) :
        o \in Offsets, l \in Limits, asc \in BOOLEAN, f \in OrderByEnum}

\* The product names stored in the tables searched.
StoredNames ==
    {<<"S", "t">>, <<"t", "s">>, <<"Eacute", "t">>, <<"eacute", "s">>}

NameRow(i, name) == [RowA EXCEPT !.id = i, !.name = name]

\* Tables of up to MaxNamesStored products with distinct names.
NameTables ==
    {[i \in DOMAIN ns |-> NameRow(i, ns[i])] :
        ns \in {x \in UNION {[1..n -> StoredNames] : n \in 0..MaxNamesStored} :
                   \A i, j \in DOMAIN x : x[i] = x[j] => i = j}}

\* The prefixes searched for: letters and the characters _ and % .
Prefixes == UNION {[1..n -> Letters \cup {"_", "%"}] : n \in 0..MaxPrefixLen}

\* ------------------------------------------------------------- actions

Finish(op, row_id, obj_in, now, r, status) ==
    /\ last = Idle
    /\ product' = r.store.product
    /\ product_type' = r.store.product_type
    /\ product_location' = r.store.product_location
    /\ last' = Call(op, row_id, obj_in, now, r.exc, r.arg, r.ret,
                    r.store # Current, status)
    /\ removed' = IF r.exc # "none" THEN removed
                  ELSE IF op = "remove" THEN removed \cup {row_id}
                  ELSE IF op \in {"create", "create_multi"}
                  THEN removed \ {r.ret[i].id : i \in DOMAIN r.ret}
                  ELSE removed
    /\ UNCHANGED fk_enforced

Get(row_id) ==
    Finish("get", row_id, NoInput, 0,
           Result("none", "", CrudGet(Current, row_id), Current), 0)

Create(obj_in, now) ==
    Finish("create", 0, obj_in, now, CrudCreate(Current, fk_enforced, obj_in, now), 0)

CreateMulti(objs, now) ==
    Finish("create_multi", 0, objs, now,
           CrudCreateMulti(Current, fk_enforced, objs, now), 0)

Update(row_id, obj_in) ==
    Finish("update", row_id, obj_in, 0,
           CrudUpdate(Current, fk_enforced, row_id, obj_in), 0)

Remove(row_id) ==
    Finish("remove", row_id, NoInput, 0, CrudRemove(Current, fk_enforced, row_id), 0)

DeleteLookup(kind, name) ==
    Finish(kind, 0, NoInput, 0,
           DeleteLookupRow(Current, fk_enforced, kind, name), 0)

PatchUpdate(product_id, body) ==
    LET r == UpdateProduct(Current, fk_enforced, product_id, body)
    IN  Finish("PATCH /inventory/update", product_id, body, 0,
               Result(r.detail, "", <<>>, r.store), r.status)

PatchOneField ==
    \E i \in UpdateIds, k \in ProductBaseFields :
        \E v \in FieldValues(k) : PatchUpdate(i, [x \in {k} |-> v])

PatchAllFields == \E i \in UpdateIds, d \in Drafts : PatchUpdate(i, d)

DeleteRequest ==
    \E i \in RowIds :
        LET r == DeleteProduct(Current, i)
        IN  Finish("DELETE /inventory/delete", i, NoInput, 0,
                   Result(r.detail, "", <<>>, r.store), r.status)

DeleteType == \E n \in ProductTypeEnum : DeleteLookup("product_type", n)

DeleteLocation ==
    \E n \in ProductLocationEnum : DeleteLookup("product_location", n)

GetPage(a) ==
    Finish("get_multi_paginated", 0, a, 0,
           CrudGetMultiPaginated(Current, fk_enforced, a.offset, a.limit,
                                 a.ascending, a.order_by), 0)

GetPageWithArgs == \E a \in PageArgsGiven : GetPage(a)

\* The call with no argument but the session: every default applies.
GetPageDefault == GetPage(DefaultPageArgs)

ListProducts(a) ==
    LET r == GetProductList(Current, fk_enforced, a.offset, a.limit,
                            a.ascending, a.order_by)
    IN  Finish("GET /inventory/list", 0, a, 0,
               Result(r.detail, "", r.body, Current), r.status)

ListProductsWithArgs == \E a \in PageArgsGiven : ListProducts(a)

ListProductsDefault == ListProducts(DefaultListArgs)

\* The caller pages forward: it asks for the page that follows the non-empty
\* one it holds, the same call at the next_offset computed from the response.
NextPage ==
    /\ last.op = "get_multi_paginated"
    /\ last.exc = "none"
    /\ last.obj_in.offset >= 0 /\ last.obj_in.limit >= 1
    /\ last.ret[1].data # <<>>
    /\ LET a == [last.obj_in EXCEPT !.offset = NextOffset(last.ret[1])]
           r == CrudGetMultiPaginated(Current, fk_enforced, a.offset, a.limit,
                                      a.ascending, a.order_by)
       IN  last' = Call("get_multi_paginated", 0, a, 0, r.exc, r.arg, r.ret,
                        FALSE, 0)
    /\ UNCHANGED <<product, product_type, product_location, fk_enforced, removed>>

UpdateEmpty == \E i \in UpdateIds : Update(i, NoInput)

UpdateOneField ==
    \E i \in UpdateIds, k \in ProductBaseFields :
        \E v \in FieldValues(k) : Update(i, [x \in {k} |-> v])

UpdateTwoFields ==
    \E i \in UpdateIds, d \in Drafts :
        \/ Update(i, Partial({"quantity", "product_location"}, d))
        \/ Update(i, Partial({"product_type", "product_location"}, d))

UpdateAllFields == \E i \in UpdateIds, d \in Drafts : Update(i, d)

GetNames(product_name) ==
    Finish("get_names_starting_with", 0, product_name, 0,
           Result("none", "",
                  GetNamesStartingWith(Current, fk_enforced, product_name),
                  Current), 0)

\* A client pages forward through GET /inventory/list: it sends the request
\* for offset 0, the server answers, and while the answer is a 200 whose
\* next_offset is below its total the client sends the same request with
\* offset = next_offset.
ListRequest(a) ==
    Call("GET /inventory/list", 0, a, 0, "pending", "", <<>>, FALSE, 0)

PagingStart ==
    /\ last = Idle
    /\ \E a \in PageArgsGiven : a.offset = 0 /\ last' = ListRequest(a)
    /\ UNCHANGED <<product, product_type, product_location, fk_enforced, removed>>

PagingAnswer ==
    /\ last.op = "GET /inventory/list" /\ last.exc = "pending"
    /\ \E r \in {GetProductList(Current, fk_enforced, last.obj_in.offset,
                                last.obj_in.limit, last.obj_in.ascending,
                                last.obj_in.order_by)} :
          last' = Call("GET /inventory/list", 0, last.obj_in, 0, r.detail, "",
                       r.body, FALSE, r.status)
    /\ UNCHANGED <<product, product_type, product_location, fk_enforced, removed>>

PagingNext ==
    /\ last.op = "GET /inventory/list" /\ last.status = 200
    /\ last.ret[1].next_offset < last.ret[1].total
    /\ last' = ListRequest([last.obj_in EXCEPT
                                !.offset = last.ret[1].next_offset])
    /\ UNCHANGED <<product, product_type, product_location, fk_enforced, removed>>

\* The caller takes the outcome of the call; the next call may start.
\* init_product_type_table and init_product_location_table: add one row per
\* name of the seed list. initialise_db calls them on empty tables only.
InitProductTypeTable(types) == types \cup SeedTypes
InitProductLocationTable(locations) == locations \cup SeedLocations

\* initialise_db: create_all keeps the rows of the tables that exist; then, in
\* one transaction, each lookup table is seeded if it has no row.
InitialiseDbStore(s) ==
    [s EXCEPT
       !.product_type = IF Cardinality(@) = 0 THEN InitProductTypeTable(@) ELSE @,
       !.product_location =
           IF Cardinality(@) = 0 THEN InitProductLocationTable(@) ELSE @]

InitialiseDb ==
    Finish("initialise_db", 0, NoInput, 0,
           Result("none", "", <<>>, InitialiseDbStore(Current)), 0)

\* A request whose handler depends on get_session. FastAPI runs get_session up
\* to its yield, runs the handler with the session, and when the handler has
\* returned or raised resumes the generator, which leaves through its finally.

\* The session of a request: whether it is open, and how many times
\* session.close() has been called on it.
NewSession == [open |-> TRUE, closes |-> 0]

\* session.close()
CloseSession(sess) == [sess EXCEPT !.open = FALSE, !.closes = @ + 1]

\* A get_session without try and finally: the close after the yield is not
\* reached when the exception of the handler is thrown into the generator.
GetSessionExitWithoutFinally(sess, raised) ==
    IF raised THEN sess ELSE CloseSession(sess)

\* get_session after its yield: `finally: session.close()`, whether the
\* handler returned or raised.
GetSessionExit(sess, raised) == CloseSession(sess)

\* The requests sent: updates of one field and of every field, and the listing
\* with its defaults.
OneFieldBodies ==
    UNION {{[x \in {k} |-> v] : v \in FieldValues(k)} : k \in ProductBaseFields}

SessionRequests ==
    {[route |-> "PATCH /inventory/update", product_id |-> i, params |-> b] :
        i \in UpdateIds, b \in OneFieldBodies \cup Drafts}
    \cup {[route |-> "GET /inventory/list", product_id |-> 0,
           params |-> DefaultListArgs]}

\* The answer of the handler of a request, and the store it leaves.
HandlerReply(s, fk, req) ==
    IF req.route = "PATCH /inventory/update"
    THEN UpdateProduct(s, fk, req.product_id, req.params)
    ELSE LET r == GetProductList(s, fk, req.params.offset, req.params.limit,
                                 req.params.ascending, req.params.order_by)
         IN  Reply(r.status, r.detail, s)

\* An answer of status 400 or more is an exception that left the handler.
Raised(status) == status >= 400

\* `session = SessionLocal()` and the yield: the handler is about to run.
GetSessionYield ==
    /\ last = Idle
    /\ \E req \in SessionRequests :
          last' = Call(req.route, req.product_id,
                       [params |-> req.params, session |-> NewSession,
                        generator |-> "yield"],
                       0, "pending", "", <<>>, FALSE, 0)
    /\ UNCHANGED <<product, product_type, product_location, fk_enforced, removed>>

\* The handler runs to its return or to the exception it raises.
HandlerRuns ==
    /\ last.exc = "pending"
    /\ "generator" \in DOMAIN last.obj_in
    /\ \E r \in {HandlerReply(Current, fk_enforced,
                               [route |-> last.op, product_id |-> last.row_id,
                                params |-> last.obj_in.params])} :
          /\ product' = r.store.product
          /\ product_type' = r.store.product_type
          /\ product_location' = r.store.product_location
          /\ last' = [last EXCEPT !.exc = r.detail, !.status = r.status,
                                  !.changed = r.store # Current]
    /\ UNCHANGED <<fk_enforced, removed>>

\* The generator is resumed after the handler and runs to its end.
GetSessionResume ==
    /\ last.status # 0
    /\ "generator" \in DOMAIN last.obj_in
    /\ last.obj_in.generator = "yield"
    /\ last' = [last EXCEPT
                  !.obj_in.session = GetSessionExit(@, Raised(last.status)),
                  !.obj_in.generator = "done"]
    /\ UNCHANGED <<product, product_type, product_location, fk_enforced, removed>>

\* The request has finished: the response is sent and its dependencies exited.
RequestFinished ==
    /\ "generator" \in DOMAIN last.obj_in
    /\ last.obj_in.generator = "done"
    /\ last' = Idle
    /\ UNCHANGED <<product, product_type, product_location, fk_enforced, removed>>

\* Two sessions at once. One runs CRUDProduct.create in two steps: the lookups
\* of _collect_scalar_values, then the construction of the Product, the add and
\* the commit. The other deletes a lookup row and commits, between the two.
CreateResolve(obj_in, now) ==
    /\ last = Idle
    /\ \E c \in {CollectScalarValues(obj_in, product_type, product_location)} :
          last' = IF c.exc # "none"
                  THEN Call("create", 0, obj_in, now, c.exc, c.arg, <<>>, FALSE, 0)
                  ELSE Call("create", 0, obj_in, now, "pending", "", <<c.val>>,
                            FALSE, 0)
    /\ UNCHANGED <<product, product_type, product_location, fk_enforced, removed>>

CreateResolveDraft ==
    \E d \in Drafts, now \in ClockReadings : CreateResolve(d, now)

DeleteLookupMeanwhile(kind, name) ==
    /\ last.op = "create" /\ last.exc = "pending"
    /\ \E r \in {DeleteLookupRow(Current, fk_enforced, kind, name)} :
          /\ r.exc = "none"
          /\ r.store # Current
          /\ product_type' = r.store.product_type
          /\ product_location' = r.store.product_location
    /\ UNCHANGED <<product, fk_enforced, removed, last>>

DeleteTypeMeanwhile ==
    \E n \in ProductTypeEnum : DeleteLookupMeanwhile("product_type", n)

DeleteLocationMeanwhile ==
    \E n \in ProductLocationEnum : DeleteLookupMeanwhile("product_location", n)

CreateCommit ==
    /\ last.op = "create" /\ last.exc = "pending"
    /\ \E r \in {AddAndCommit(Current, fk_enforced,
                               BuildProduct(Outcome("none", "", last.ret[1]),
                                            last.now))} :
          /\ product' = r.store.product
          /\ last' = Call("create", 0, last.obj_in, last.now, r.exc, r.arg, r.ret,
                          r.store # Current, 0)
          /\ removed' = IF r.exc # "none" THEN removed
                        ELSE removed \ {r.ret[i].id : i \in DOMAIN r.ret}
    /\ UNCHANGED <<product_type, product_location, fk_enforced>>

Return ==
    /\ last # Idle
    /\ last' = Idle
    /\ UNCHANGED <<product, product_type, product_location, fk_enforced, removed>>

Next ==
    \/ Return
    \/ \E i \in RowIds : Get(i)
    \/ \E d \in Drafts, now \in ClockReadings : Create(d, now)
    \/ \E now \in ClockReadings : CreateMulti(<<>>, now)
    \/ \E d \in BatchDrafts, now \in ClockReadings : CreateMulti(<<d>>, now)
    \/ \E d, e \in BatchDrafts, now \in ClockReadings : CreateMulti(<<d, e>>, now)
    \/ \E d \in MeatDrafts, e \in BatchDrafts, now \in ClockReadings :
          CreateMulti(<<d, e>>, now)
    \/ \E d \in DraftsBelowQuantity, now \in ClockReadings : Create(d, now)
    \/ UpdateEmpty
    \/ UpdateOneField
    \/ UpdateTwoFields
    \/ UpdateAllFields
    \/ \E i \in RowIds : Remove(i)
    \/ DeleteType
    \/ DeleteLocation

Spec == Init /\ [][Next]_vars

\* The requests of the HTTP API, next to deletions of lookup rows.
NextApi ==
    \/ Return
    \/ PatchOneField
    \/ PatchAllFields
    \/ DeleteType
    \/ DeleteLocation
    \/ DeleteRequest

SpecApi == Init /\ [][NextApi]_vars

\* The paged reads of a table that holds up to Len(PageNames) products.
InitPage ==
    /\ product_type = SeedTypes
    /\ product_location = SeedLocations
    /\ product \in PageTables
    /\ fk_enforced \in BOOLEAN
    /\ last = Idle
    /\ removed = {}

NextPageCalls ==
    \/ Return
    \/ GetPageWithArgs
    \/ GetPageDefault
    \/ NextPage
    \/ ListProductsWithArgs
    \/ ListProductsDefault

SpecPage == InitPage /\ [][NextPageCalls]_vars

\* Creations of products, next to deletions of lookup rows.
CreateDraft == \E d \in Drafts, now \in ClockReadings : Create(d, now)

CreateWithCreationDate ==
    \E d \in DraftsWithCreationDate, now \in ClockReadings : Create(d, now)

NextCreate ==
    \/ Return
    \/ CreateDraft
    \/ CreateWithCreationDate
    \/ DeleteType
    \/ DeleteLocation

SpecCreate == Init /\ [][NextCreate]_vars

\* A create racing against deletions of lookup rows.
NextRace ==
    \/ Return
    \/ CreateResolveDraft
    \/ DeleteTypeMeanwhile
    \/ DeleteLocationMeanwhile
    \/ CreateCommit

SpecRace == Init /\ [][NextRace]_vars

\* Startups over lookup tables of any prior content: rows of the seed lists and
\* a row of a name the lists no longer have.
PriorTypes == SUBSET (SeedTypes \cup {[id |-> 3, name |-> "game"]})
PriorLocations == SUBSET (SeedLocations \cup {[id |-> 3, name |-> "cellar"]})

InitSeed ==
    /\ product_type \in PriorTypes
    /\ product_location \in PriorLocations
    /\ product = [i \in {} |-> RowA]
    /\ fk_enforced \in BOOLEAN
    /\ last = Idle
    /\ removed = {}

NextSeed ==
    \/ Return
    \/ InitialiseDb
    \/ DeleteType
    \/ DeleteLocation

SpecSeed == InitSeed /\ [][NextSeed]_vars

\* Requests that take their session from get_session. Every handler ends, and
\* FastAPI exits the dependencies of a request whose handler has ended.
NextSession ==
    \/ GetSessionYield
    \/ HandlerRuns
    \/ GetSessionResume
    \/ RequestFinished

SpecSession ==
    /\ Init /\ [][NextSession]_vars
    /\ WF_vars(HandlerRuns) /\ WF_vars(GetSessionResume)

\* Updates of products, next to deletions of lookup rows.
NextUpdate ==
    \/ Return
    \/ UpdateEmpty
    \/ UpdateOneField
    \/ UpdateTwoFields
    \/ UpdateAllFields
    \/ DeleteType
    \/ DeleteLocation

SpecUpdate == Init /\ [][NextUpdate]_vars

\* A client paging forward over an unchanged store. The server answers every
\* request and the client sends the next one as long as its loop condition
\* holds.
NextPaging ==
    \/ PagingStart
    \/ PagingAnswer
    \/ PagingNext

SpecPaging ==
    /\ InitPage
    /\ [][NextPaging]_vars
    /\ WF_vars(PagingAnswer)
    /\ WF_vars(PagingNext)

\* Searches of product names by prefix, over tables of named products.
InitNames ==
    /\ product_type = SeedTypes
    /\ product_location = SeedLocations
    /\ product \in NameTables
    /\ fk_enforced \in BOOLEAN
    /\ last = Idle
    /\ removed = {}

NextNames ==
    \/ Return
    \/ \E p \in Prefixes : GetNames(p)

SpecNames == InitNames /\ [][NextNames]_vars

\* ------------------------------------------------------------ properties

\* The column of Product that stores a payload field.
KeyColumn(k) ==
    CASE k = "product_name" -> "name"
      [] k = "product_type" -> "product_type_id"
      [] k = "product_location" -> "product_location_id"
      [] k = "expiry_date" -> "expiration_date"
      [] OTHER -> k

LookupsUnchanged ==
    product_type' = product_type /\ product_location' = product_location

StoreUnchanged == product' = product /\ LookupsUnchanged

\* C1: an update is sparse. Whatever its outcome, it adds and deletes no row,
\* leaves every other row as it was, leaves every column of the addressed row
\* that no field of the partial object is written to as it was, and leaves the
\* lookup tables as they were; with an empty partial object the store is
\* unchanged.
C1_UpdateIsSparse ==
    [][last'.op = "update" =>
        /\ DOMAIN product' = DOMAIN product
        /\ \A i \in DOMAIN product : \A c \in ProductColumns :
              (i # last'.row_id
                  \/ c \notin {KeyColumn(k) : k \in DOMAIN last'.obj_in})
              => product'[i][c] = product[i][c]
        /\ LookupsUnchanged
        /\ (DOMAIN last'.obj_in = {} => product' = product)]_vars

\* An update of one field went through and changed the row, next to another row.
C1_Witness ==
    /\ last.op = "update" /\ last.exc = "none" /\ last.changed
    /\ DOMAIN last.obj_in = {"description"}
    /\ last.row_id = 1 /\ 2 \in DOMAIN product
    /\ product[1].unit = "boxes"

\* C2: update and remove of an id that is not in the store raise NoResultFound
\* and leave the store unchanged.
C2_MissingIdRaises ==
    [][(last'.op \in {"update", "remove"} /\ last'.row_id \notin DOMAIN product)
        => (last'.exc = "NoResultFound" /\ StoreUnchanged)]_vars

\* An update with a non-empty partial object addressed an id that is not among
\* the rows stored.
C2_Witness ==
    /\ last.op = "update" /\ last.exc = "NoResultFound"
    /\ last.row_id = 3 /\ DOMAIN product = {1, 2}
    /\ DOMAIN last.obj_in = {"quantity"}

\* C3: a remove that succeeds returns the row as it was stored before the call
\* and the id is no longer stored; a get of an id removed and not assigned again
\* since returns None.
C3_RemoveReturnsEntity ==
    [][/\ (last'.op = "remove" /\ last'.exc = "none")
           => /\ last'.row_id \in DOMAIN product
              /\ last'.ret = <<product[last'.row_id]>>
              /\ last'.row_id \notin DOMAIN product'
       /\ (last'.op = "get" /\ last'.row_id \in removed) => last'.ret = <<>>]_vars

\* A get of an id after its remove.
C3_Witness ==
    last.op = "get" /\ last.row_id \in removed /\ last.ret = <<>>

TypeMissing(obj_in) ==
    "product_type" \in DOMAIN obj_in
    /\ \A r \in product_type : r.name # obj_in.product_type

LocationMissing(obj_in) ==
    "product_location" \in DOMAIN obj_in
    /\ \A r \in product_location : r.name # obj_in.product_location

\* The name of the lookup row with this id, NullStr when no row has it.
NameOf(tbl, id) ==
    IF id \in Ids(tbl) THEN (CHOOSE r \in tbl : r.id = id).name ELSE NullStr

\* C4: a create of a valid draft (its category and location names are stored,
\* its name is not taken, its expiry is later than the clock) returns an entity
\* with an id and a creation timestamp, and the row then stored under that id
\* has the draft's name, description, quantity, unit, expiry, category and
\* location.
C4_CreateThenGet ==
    [][(/\ last'.op = "create"
        /\ ~TypeMissing(last'.obj_in) /\ ~LocationMissing(last'.obj_in)
        /\ \A i \in DOMAIN product : product[i].name # last'.obj_in.product_name
        /\ last'.obj_in.expiry_date > last'.now)
       => /\ last'.exc = "none"
          /\ Len(last'.ret) = 1
          /\ last'.ret[1].id \in DOMAIN product'
          /\ last'.ret[1].added_date # NullInt
          /\ LET row == product'[last'.ret[1].id]
                 d == last'.obj_in
             IN  /\ row.name = d.product_name
                 /\ row.description = d.description
                 /\ row.quantity = d.quantity
                 /\ row.unit = d.unit
                 /\ row.expiration_date = d.expiry_date
                 /\ NameOf(product_type', row.product_type_id) = d.product_type
                 /\ NameOf(product_location', row.product_location_id)
                        = d.product_location]_vars

\* C5: a create whose category name or location name no row has fails with
\* InvalidProductTypeError or InvalidProductLocationError carrying a name that
\* no row has, returns nothing and leaves the store unchanged; and any create
\* that fails leaves the store unchanged.
C5_CreateIsAtomic ==
    [][last'.op = "create" =>
        /\ (TypeMissing(last'.obj_in) \/ LocationMissing(last'.obj_in))
            => /\ last'.exc \in {"InvalidProductTypeError",
                                  "InvalidProductLocationError"}
               /\ last'.exc = "InvalidProductTypeError"
                    => (TypeMissing(last'.obj_in)
                        /\ last'.arg = last'.obj_in.product_type)
               /\ last'.exc = "InvalidProductLocationError"
                    => (LocationMissing(last'.obj_in)
                        /\ last'.arg = last'.obj_in.product_location)
        /\ last'.exc # "none" => (last'.ret = <<>> /\ StoreUnchanged)]_vars

\* A create named a location whose row was deleted, with a product stored.
C5_Witness ==
    /\ last.op = "create" /\ last.exc = "InvalidProductLocationError"
    /\ last.arg = "big freezer" /\ ~last.changed
    /\ DOMAIN product = {1, 2}

\* C6 as stated: every create or update that names a category no row has fails
\* with InvalidProductTypeError carrying the name, and every create or update
\* that names a location no row has fails with InvalidProductLocationError
\* carrying the name.
C6_AsStated ==
    last.op \in {"create", "update"} =>
        /\ TypeMissing(last.obj_in)
            => (last.exc = "InvalidProductTypeError"
                /\ last.arg = last.obj_in.product_type)
        /\ LocationMissing(last.obj_in)
            => (last.exc = "InvalidProductLocationError"
                /\ last.arg = last.obj_in.product_location)

\* C6: names are resolved against the tables as they are now. A create, or an
\* update of an id that is stored, that names a category no row has fails with
\* InvalidProductTypeError carrying the name; one that names a location no row
\* has, and no missing category, fails with InvalidProductLocationError
\* carrying the name. (An update of an id that is not stored raises
\* NoResultFound before any name is resolved, and the category is resolved
\* before the location.)
C6_ResolutionIsCurrent ==
    (last.op = "create" \/ (last.op = "update" /\ last.row_id \in DOMAIN product))
    => /\ TypeMissing(last.obj_in)
           => (last.exc = "InvalidProductTypeError"
               /\ last.arg = last.obj_in.product_type)
       /\ (LocationMissing(last.obj_in) /\ ~TypeMissing(last.obj_in))
           => (last.exc = "InvalidProductLocationError"
               /\ last.arg = last.obj_in.product_location)

\* An update named the category whose id the row still holds, after the
\* category row was deleted.
C6_Witness ==
    /\ last.op = "update" /\ last.exc = "InvalidProductTypeError"
    /\ last.arg = "fruit"
    /\ last.row_id \in DOMAIN product
    /\ product[last.row_id].product_type_id = 1

\* C7: a PATCH /inventory/update of a stored product with an expiry_date
\* earlier than the row's creation date is answered 400 and leaves the store
\* as it was.
C7_PatchRejectsEarlyExpiry ==
    (/\ last.op = "PATCH /inventory/update"
     /\ last.row_id \in DOMAIN product
     /\ "expiry_date" \in DOMAIN last.obj_in
     /\ last.obj_in.expiry_date < product[last.row_id].added_date)
    => (last.status = 400 /\ ~last.changed)

C9_ReferentialIntegrity ==
    \A i \in DOMAIN product :
        /\ product[i].product_type_id \in Ids(product_type)
        /\ product[i].product_location_id \in Ids(product_location)

\* C10: a remove leaves product_type and product_location as they were.
C10_RemoveKeepsLookups ==
    [][last'.op = "remove" => LookupsUnchanged]_vars

\* The key a page is expected to be ordered by: the name's place in the
\* collation for "name", the id for "id".
ExpectedKey(row, field) ==
    IF field = "name" THEN NameRank(row.name) ELSE row.id

\* The number of stored rows that come before row i in the ordering asked for.
RankOf(i, field, ascending) ==
    Cardinality({j \in DOMAIN product :
        IF ascending
        THEN ExpectedKey(product[j], field) < ExpectedKey(product[i], field)
        ELSE ExpectedKey(product[j], field) > ExpectedKey(product[i], field)})

\* The rows ranked offset .. offset + limit - 1 in the ordering, in that order.
ExpectedSlice(offset, limit, field, ascending) ==
    LET n == Cardinality(DOMAIN product)
        m == IF offset >= n THEN 0 ELSE Min(limit, n - offset)
    IN  [k \in 1..m |->
            product[CHOOSE i \in DOMAIN product :
                        RankOf(i, field, ascending) = offset + k - 1]]

ConsecutivePages ==
    /\ last.op = "get_multi_paginated" /\ last.exc = "none"
    /\ last'.op = "get_multi_paginated"

C12_TotalIsRowCount ==
    (last.op = "get_multi_paginated" /\ last.exc = "none")
    => last.ret[1].total = Cardinality(DOMAIN product)

\* A page cut by its limit: fewer items than rows stored.
C12_Witness ==
    /\ last.op = "get_multi_paginated" /\ last.exc = "none"
    /\ last.obj_in.limit = 2
    /\ Len(last.ret[1].data) = 2
    /\ last.ret[1].total = Len(PageNames)

\* C19: a page asked for in an order-by field the Product model does not have
\* fails with ModelNotHavingAttributeError whose message names the model and
\* the field; no page is returned and no row is touched, and the check comes
\* before the statement is run (a negative offset on PostgreSQL, which the
\* statement would reject, does not change the error).
C19_UnknownOrderFieldRaises ==
    (last.op = "get_multi_paginated" /\ last.obj_in.order_by \notin ProductAttrs)
    => /\ last.exc = "ModelNotHavingAttributeError"
       /\ last.arg = NotHavingAttributeMessage(last.obj_in.order_by)
       /\ last.arg # NotHavingAttributeMessage("")
       /\ last.ret = <<>>
       /\ ~last.changed

\* A page ordered by expiry_date at offset -1 on PostgreSQL, rows stored.
C19_Witness ==
    /\ last.op = "get_multi_paginated"
    /\ last.obj_in.order_by = "expiry_date"
    /\ last.obj_in.offset < 0
    /\ ~Sqlite(fk_enforced)
    /\ product # <<>>
    /\ last.exc = "ModelNotHavingAttributeError"

\* C20: for offset >= 0, limit >= 0 and an order-by field the model has, the
\* page holds exactly the rows ranked offset .. offset + limit - 1 among the
\* stored rows sorted by that field, ascending when asked and descending
\* otherwise; the call with every default is descending by id.
C20_PageIsSortedSlice ==
    /\ (/\ last.op = "get_multi_paginated"
        /\ last.obj_in.order_by \in {"id", "name"}
        /\ last.obj_in.offset >= 0
        /\ last.obj_in.limit >= 0)
       => /\ last.exc = "none"
          /\ last.ret[1].data = ExpectedSlice(last.obj_in.offset,
                                              last.obj_in.limit,
                                              last.obj_in.order_by,
                                              last.obj_in.ascending)
          /\ last.ret[1].offset = last.obj_in.offset
          /\ last.ret[1].limit = last.obj_in.limit
    /\ (/\ last.op = "get_multi_paginated"
        /\ last.obj_in.offset = 0
        /\ last.obj_in.limit = 100
        /\ ~last.obj_in.ascending
        /\ last.obj_in.order_by = "id")
       => LET data == last.ret[1].data
          IN  /\ Len(data) = Cardinality(DOMAIN product)
              /\ \A k \in 1..(Len(data) - 1) : data[k].id > data[k + 1].id

\* Apples, Bananas and Carrots stored: limit 2 at offset 0, ascending by name,
\* gives Apples then Bananas.
C20_Witness ==
    /\ last.op = "get_multi_paginated" /\ last.exc = "none"
    /\ last.obj_in = PageArgs(0, 2, TRUE, "name")
    /\ {product[i].name : i \in DOMAIN product} = {"Apples", "Bananas", "Carrots"}
    /\ Len(last.ret[1].data) = 2
    /\ last.ret[1].data[1].name = "Apples"
    /\ last.ret[1].data[2].name = "Bananas"

\* C13: every list request is answered 200 with next_offset equal to
\* offset + min(limit, number of products returned), a value >= 0, whatever
\* offset and limit the request carries.
C13_NextOffsetIsValid ==
    last.op = "GET /inventory/list"
    => /\ last.status = 200
       /\ last.ret[1].next_offset
            = last.obj_in.offset
              + Min(last.obj_in.limit, Len(last.ret[1].products))
       /\ last.ret[1].next_offset >= 0

\* C14: a DELETE that addresses a stored product is answered 204 and the
\* product is no longer stored; one that addresses a product that is not
\* stored is answered 404 and the store is unchanged.
C14_DeleteAnswers ==
    [][last'.op = "DELETE /inventory/delete"
       => IF last'.row_id \in DOMAIN product
          THEN last'.status = 204 /\ last'.row_id \notin DOMAIN product'
          ELSE last'.status = 404 /\ StoreUnchanged]_vars

\* C15: a PATCH that addresses a product that is not stored is answered 404
\* with the detail "Product not found in the database.", whatever fields the
\* body carries, and the store is unchanged.
C15_PatchUnknownIs404 ==
    [][(last'.op = "PATCH /inventory/update" /\ last'.row_id \notin DOMAIN product)
       => /\ last'.status = 404
          /\ last'.exc = "Product not found in the database."
          /\ StoreUnchanged]_vars

\* A PATCH of product 3, not stored, with a body that carries only a quantity,
\* while other products are stored.
C15_Witness ==
    /\ last.op = "PATCH /inventory/update"
    /\ last.row_id = 3 /\ 3 \notin DOMAIN product /\ 1 \in DOMAIN product
    /\ DOMAIN last.obj_in = {"quantity"}
    /\ last.obj_in.quantity = 1
    /\ last.status = 404

\* C16: a create_multi either returns one row per payload, each stored under a
\* new id with the payload's name, next to the rows that were there, or it
\* raises, returns nothing and leaves every table as it was.
C16_CreateMultiIsAllOrNothing ==
    [][last'.op = "create_multi"
       => \/ /\ last'.exc = "none"
             /\ Len(last'.ret) = Len(last'.obj_in)
             /\ Cardinality(DOMAIN product')
                  = Cardinality(DOMAIN product) + Len(last'.obj_in)
             /\ \A k \in DOMAIN last'.ret :
                   /\ last'.ret[k].id \in DOMAIN product' \ DOMAIN product
                   /\ product'[last'.ret[k].id] = last'.ret[k]
                   /\ last'.ret[k].name = last'.obj_in[k].product_name
             /\ \A i \in DOMAIN product : product'[i] = product[i]
             /\ LookupsUnchanged
          \/ /\ last'.exc # "none"
             /\ last'.ret = <<>>
             /\ StoreUnchanged]_vars

\* A batch of two failed with nothing stored: its first payload names a type
\* that has a row, its second a type whose row is gone.
C16_Witness ==
    /\ last.op = "create_multi" /\ last.exc # "none" /\ ~last.changed
    /\ Len(last.obj_in) = 2
    /\ \E r \in product_type : r.name = last.obj_in[1].product_type
    /\ \A r \in product_type : r.name # last.obj_in[2].product_type
    /\ product # <<>>

\* C18: every stored product has quantity >= 1, and a create or an update that
\* carries a quantity below 1 raises and leaves every table as it was.
C18_QuantityAtLeastOne ==
    /\ \A i \in DOMAIN product : product[i].quantity >= 1
    /\ (/\ last.op \in {"create", "update"}
        /\ "quantity" \in DOMAIN last.obj_in
        /\ last.obj_in.quantity < 1)
       => last.exc # "none" /\ ~last.changed /\ last.ret = <<>>

\* An update of the quantity of a stored product to 0 was refused by the
\* table's check.
C18_Witness ==
    /\ last.op = "update" /\ last.row_id \in DOMAIN product
    /\ DOMAIN last.obj_in = {"quantity"} /\ last.obj_in.quantity = 0
    /\ last.exc = "IntegrityError"
    /\ product[last.row_id].quantity >= 1

\* C17: whatever is stored and whatever the prefix, the names found are those
\* found with the prefix in upper case and those found with it in lower case.
C17_PrefixCaseInsensitive ==
    last.op = "get_names_starting_with"
    => /\ GetNamesStartingWith(Current, fk_enforced, StrUpper(last.obj_in))
            = GetNamesStartingWith(Current, fk_enforced, StrLower(last.obj_in))
       /\ last.ret
            = GetNamesStartingWith(Current, fk_enforced, StrUpper(last.obj_in))

\* The payload of the last call is one the table accepts: its names have rows,
\* its quantity is at least 1, it expires after the time of the call and no
\* stored product has its name.
DraftAcceptable ==
    /\ \E r \in product_type : r.name = last.obj_in.product_type
    /\ \E r \in product_location : r.name = last.obj_in.product_location
    /\ last.obj_in.quantity >= 1
    /\ last.obj_in.expiry_date > last.now
    /\ \A i \in DOMAIN product :
          product[i].name = last.obj_in.product_name => <<product[i]>> = last.ret

\* C21: a create of an acceptable payload stores a product whose date of
\* creation is the server's time at the call, whatever the payload carries, a
\* creation_date of the client's included.
C21_CreationDateIsServerTime ==
    (last.op = "create" /\ DraftAcceptable)
    => /\ last.exc = "none"
       /\ Len(last.ret) = 1
       /\ last.ret[1].added_date = last.now
       /\ product[last.ret[1].id].added_date = last.now

\* The column of the product table that holds the field of OrderByEnum.
FieldColumn(field) ==
    CASE field = "creation_date" -> "added_date"
      [] field = "expiry_date" -> "expiration_date"
      [] OTHER -> field

\* The rows of a page follow each other in the order asked for.
PageOrdered(data, field, ascending) ==
    \A k \in 1..(Len(data) - 1) :
        LET a == IF field = "name" THEN NameRank(data[k].name)
                 ELSE data[k][FieldColumn(field)]
            b == IF field = "name" THEN NameRank(data[k + 1].name)
                 ELSE data[k + 1][FieldColumn(field)]
        IN  IF ascending THEN a <= b ELSE a >= b

\* C22: a page of products asked for in any field of OrderByEnum, at an offset
\* and with a limit that are not negative, never fails with
\* ModelNotHavingAttributeError and is returned ordered by that field.
C22_EveryOrderFieldAccepted ==
    (/\ last.op = "get_multi_paginated"
     /\ last.obj_in.order_by \in OrderByEnum
     /\ last.obj_in.offset >= 0
     /\ last.obj_in.limit >= 0)
    => /\ last.exc # "ModelNotHavingAttributeError"
       /\ last.exc = "none"
       /\ PageOrdered(last.ret[1].data, last.obj_in.order_by,
                      last.obj_in.ascending)

\* The key _collect_scalar_values gives a payload field in the encoded changes.
EncodedKey(k) ==
    CASE k = "product_name" -> "name"
      [] k = "product_type" -> "product_type_id"
      [] k = "product_location" -> "product_location_id"
      [] OTHER -> k

\* The fields of a payload whose encoded key is an attribute of Product.
KnownFields(obj_in) == {k \in DOMAIN obj_in : EncodedKey(k) \in ProductAttrs}

\* C23: an update of a stored row whose encoded changes carry a key Product
\* does not have ends as the update without that key does: same exception or
\* none, same row returned, same table. When it succeeds every known scalar
\* field of the payload is in the row, and no row has a column for the
\* unknown key.
C23_UnknownKeysIgnored ==
    [][(last'.op = "update" /\ last'.row_id \in DOMAIN product)
       => LET obj_in == last'.obj_in
              r == CrudUpdate(Current, fk_enforced, last'.row_id,
                              Partial(KnownFields(obj_in), obj_in))
          IN  /\ last'.exc = r.exc
              /\ last'.ret = r.ret
              /\ product' = r.store.product
              /\ \A i \in DOMAIN product' : DOMAIN product'[i] = ProductColumns
              /\ last'.exc = "none"
                 => \A k \in KnownFields(obj_in)
                          \cap {"product_name", "description", "quantity", "unit"} :
                        product'[last'.row_id][EncodedKey(k)] = obj_in[k]]_vars

\* An update that carried a description and a key Product does not have
\* (expiry_date) went through and wrote the description.
C23_Witness ==
    /\ last.op = "update" /\ last.exc = "none" /\ last.changed
    /\ "expiry_date" \in DOMAIN last.obj_in
    /\ "expiry_date" \notin KnownFields(last.obj_in)
    /\ product[last.row_id].description = last.obj_in.description
    /\ product[last.row_id].expiration_date # last.obj_in.expiry_date

\* The client holds a response whose next_offset has reached its total.
PagingDone ==
    /\ last.op = "GET /inventory/list" /\ last.status = 200
    /\ last.ret[1].next_offset >= last.ret[1].total

\* C24: a client that has sent the list request for offset 0, with any limit,
\* eventually holds a response whose next_offset is at least its total.
C24_PagingTerminates ==
    (/\ last.op = "GET /inventory/list"
     /\ last.exc = "pending"
     /\ last.obj_in.offset = 0)
    ~> PagingDone

\* The name starts with the prefix, character by character, whatever the case
\* of the letters.
StartsWithIgnoringCase(prefix, name) ==
    /\ Len(prefix) <= Len(name)
    /\ \A k \in 1..Len(prefix) : CharLower(prefix[k]) = CharLower(name[k])

\* C25: the names found for a prefix are the stored names that start with the
\* prefix whatever the case, all of them and no others, the characters % and
\* _ of a prefix standing for themselves.
C25_NamesByPrefixAreExact ==
    last.op = "get_names_starting_with"
    => {last.ret[k] : k \in DOMAIN last.ret}
         = {product[i].name : i \in
              {j \in DOMAIN product :
                  StartsWithIgnoringCase(last.obj_in, product[j].name)}}

\* C26: an update leaves the id and the date of creation of every stored row
\* as they were, whatever its payload and whether it succeeds or not.
C26_IdAndCreationDateImmutable ==
    [][last'.op = "update"
       => \A i \in DOMAIN product :
             /\ i \in DOMAIN product'
             /\ product'[i].id = product[i].id
             /\ product'[i].added_date = product[i].added_date]_vars

\* An update of every field of a stored product succeeded and changed the row,
\* which kept its id and the date it was created with.
C26_Witness ==
    /\ last.op = "update" /\ last.exc = "none" /\ last.changed
    /\ DOMAIN last.obj_in = ProductBaseFields
    /\ product[last.row_id].id = last.row_id
    /\ product[last.row_id].added_date
         = (IF last.row_id = 1 THEN RowA ELSE RowB).added_date

\* The create of the last call resolved its names, and a row it resolved has
\* been deleted since.
ResolvedRowDeleted ==
    /\ last.op = "create"
    /\ last.exc \notin {"pending", "InvalidProductTypeError",
                        "InvalidProductLocationError"}
    /\ \/ RowsNamed(product_type, last.obj_in.product_type) = {}
       \/ RowsNamed(product_location, last.obj_in.product_location) = {}

\* C27: on an engine that does not enforce foreign keys, a create whose
\* names were resolved before another session deleted one of their rows, and
\* that commits after, succeeds and stores a product whose product_type_id or
\* product_location_id is the id of no row.
C27_RaceStoresDanglingProduct ==
    (/\ ResolvedRowDeleted /\ ~fk_enforced
     /\ last.obj_in.quantity >= 1 /\ last.obj_in.expiry_date > last.now
     /\ \A i \in DOMAIN product :
           product[i].name = last.obj_in.product_name => <<product[i]>> = last.ret)
    => /\ last.exc = "none"
       /\ Len(last.ret) = 1
       /\ last.ret[1].id \in DOMAIN product
       /\ \/ product[last.ret[1].id].product_type_id \notin Ids(product_type)
          \/ product[last.ret[1].id].product_location_id
               \notin Ids(product_location)

\* C28: after initialise_db has run, whatever the lookup tables held before
\* and however many times it has run, each name of the seed lists is the name
\* of exactly one row of its table.
C28_SeedIsInsertIfAbsent ==
    last.op = "initialise_db"
    => /\ \A r \in SeedTypes :
             Cardinality(RowsNamed(product_type, r.name)) = 1
       /\ \A r \in SeedLocations :
             Cardinality(RowsNamed(product_location, r.name)) = 1

\* A request holds a session it took from get_session.
SessionAcquired == "generator" \in DOMAIN last.obj_in

\* The session of the request has been closed, once.
SessionReleased ==
    /\ SessionAcquired
    /\ ~last.obj_in.session.open
    /\ last.obj_in.session.closes = 1

\* C29: the session a request took from get_session is closed at most once
\* at any time, is closed exactly once when the dependency has been exited,
\* and every request that holds a session reaches that point, whether its
\* handler returns or raises.
C29_SessionReleased ==
    /\ [](SessionAcquired
           => /\ last.obj_in.session.closes <= 1
              /\ last.obj_in.generator = "done" => SessionReleased)
    /\ (SessionAcquired ~> SessionReleased)

\* The handler of a request raised, and the session of the request is closed.
C29_Witness ==
    /\ SessionReleased
    /\ last.status = 500
    /\ last.obj_in.generator = "done"

\* Another stored product than the one excepted has the name.
NameTaken(name, except) ==
    \E j \in DOMAIN product \ except : product[j].name = name

\* C30: no two stored products have the same name, and a create or an update
\* that would give a product the name of another stored product fails and
\* leaves the store as it was.
C30_ProductNamesUnique ==
    /\ \A i, j \in DOMAIN product : product[i].name = product[j].name => i = j
    /\ (/\ last.op = "update" /\ last.row_id \in DOMAIN product
        /\ "product_name" \in DOMAIN last.obj_in
        /\ NameTaken(last.obj_in.product_name, {last.row_id}))
       => last.exc # "none" /\ ~last.changed
    /\ (/\ last.op = "create"
        /\ NameTaken(last.obj_in.product_name,
                     {last.ret[k].id : k \in DOMAIN last.ret}))
       => last.exc # "none" /\ ~last.changed

\* An update of nothing but the name of a stored product, to the name of the
\* other stored product, was refused by the table.
C30_Witness ==
    /\ last.op = "update" /\ last.row_id \in DOMAIN product
    /\ DOMAIN last.obj_in = {"product_name"}
    /\ NameTaken(last.obj_in.product_name, {last.row_id})
    /\ last.exc = "IntegrityError"
    /\ product[last.row_id].name # last.obj_in.product_name

====
